---- MODULE Spec2Model ----
(***************************************************************************)
(* A model of src/app.py: the monday.com normalization pipeline            *)
(* (fetch_and_clean), its st.cache_data cache, the Streamlit session       *)
(* state, the "Sync Live Data" handler and the question handler with       *)
(* run_bi_agent (plan -> exec -> narrate).                                 *)
(*                                                                         *)
(* Text is a sequence of one-character strings, so that the regular        *)
(* expressions and substring tests of the code are computed, not assumed.  *)
(* Messages shown to the user are TLA+ strings.                            *)
(***************************************************************************)
EXTENDS Integers, Sequences, FiniteSets, TLC

VARIABLES
    DEALS_BOARD_ID,   \* config: board id of the deals board        (line 22)
    WO_BOARD_ID,      \* config: board id of the work-orders board  (line 23)
    upstream,         \* what monday.com answers now, per board id
    now,              \* wall clock, seconds
    cache,            \* st.cache_data store of fetch_and_clean
    session,          \* st.session_state: key -> [df, sync]
    syncs,            \* number of syncs run so far
    ui,               \* messages the last script run displayed
    pc,               \* position of the question handler / run_bi_agent
    clean_code,       \* run_bi_agent: the snippet after fence stripping
    local_vars,       \* run_bi_agent: names the snippet bound (exec namespace)
    raw_val,          \* run_bi_agent: the extracted result
    ret,              \* what run_bi_agent returned to its caller
    calls             \* stage invocations of the current question

vars == <<DEALS_BOARD_ID, WO_BOARD_ID, upstream, now, cache, session, syncs,
          ui, pc, clean_code, local_vars, raw_val, ret, calls>>

(***************************************************************************)
(* Bounds of the model.                                                    *)
(***************************************************************************)
MaxCols  == 2      \* column descriptors per generated board
MaxItems == 2      \* items per generated board
MaxSyncs == 2      \* syncs per behaviour
MaxTicks == 2      \* clock advances per behaviour
MaxStmts == 2      \* statements per generated snippet

(***************************************************************************)
(* Characters and text.                                                    *)
(***************************************************************************)
UpperCase == <<"A","B","C","D","E","F","G","H","I","J","K","L","M",
               "N","O","P","Q","R","S","T","U","V","W","X","Y","Z">>
LowerCase == <<"a","b","c","d","e","f","g","h","i","j","k","l","m",
               "n","o","p","q","r","s","t","u","v","w","x","y","z">>
Digits == {"0","1","2","3","4","5","6","7","8","9"}

Range(s) == {s[i] : i \in 1..Len(s)}
UpperSet == Range(UpperCase)

\* regex \w : letters, digits, underscore
WordChars == UpperSet \cup Range(LowerCase) \cup Digits \cup {"_"}
IsWordChar(c) == c \in WordChars
\* regex \s
IsSpace(c) == c = " "
\* regex [\d.]
NumericChars == Digits \cup {"."}
IsDigitOrDot(c) == c \in NumericChars

\* str.lower(), one character
LowerOf == [c \in UpperSet |->
               LowerCase[CHOOSE i \in 1..Len(UpperCase) : UpperCase[i] = c]]
LowerChar(c) == IF c \in UpperSet THEN LowerOf[c] ELSE c

\* str.lower()
Lower(s) == [i \in 1..Len(s) |-> LowerChar(s[i])]

\* str.strip()
RECURSIVE LStrip(_)
LStrip(s) == IF s # <<>> /\ IsSpace(Head(s)) THEN LStrip(Tail(s)) ELSE s
RECURSIVE RStrip(_)
RStrip(s) ==
    IF s # <<>> /\ IsSpace(s[Len(s)]) THEN RStrip(SubSeq(s, 1, Len(s) - 1)) ELSE s
Strip(s) == RStrip(LStrip(s))

\* k in s  (substring test)
Contains(s, k) ==
    \E i \in 1..(Len(s) - Len(k) + 1) : SubSeq(s, i, i + Len(k) - 1) = k

\* any(k in s for k in keywords)
ContainsAny(s, keywords) == \E j \in 1..Len(keywords) : Contains(s, keywords[j])

\* re.sub(r'[^\w\s]', ' ', col).strip()
SanitizeHeader(col) ==
    Strip([i \in 1..Len(col) |->
              IF IsWordChar(col[i]) \/ IsSpace(col[i]) THEN col[i] ELSE " "])

(***************************************************************************)
(* Cells and tables.  A cell is text, None (a JSON null) or a number; a    *)
(* number is kept as its decimal digits: the integer part without leading  *)
(* zeros and the fraction without trailing zeros.                          *)
(***************************************************************************)
StrCell(s)    == [kind |-> "str",  text |-> s,    int |-> <<>>, frac |-> <<>>]
NoneCell      == [kind |-> "none", text |-> <<>>, int |-> <<>>, frac |-> <<>>]
NumCell(i, f) == [kind |-> "num",  text |-> <<>>, int |-> i,    frac |-> f]
ZeroCell      == NumCell(<<>>, <<>>)

\* pd.DataFrame() : no columns, no rows
EmptyDataFrame == [columns |-> <<>>, rows |-> <<>>]

\* Series.astype(str), one cell
AsStr(cell) ==
    IF cell.kind = "none" THEN <<"N","o","n","e">> ELSE cell.text

\* Series.str.replace(r'[^\d.]', '', regex=True), one cell
StripNonNumeric(s) == SelectSeq(s, IsDigitOrDot)

RECURSIVE DropLeadingZeros(_)
DropLeadingZeros(d) ==
    IF d # <<>> /\ Head(d) = "0" THEN DropLeadingZeros(Tail(d)) ELSE d
RECURSIVE DropTrailingZeros(_)
DropTrailingZeros(d) ==
    IF d # <<>> /\ d[Len(d)] = "0"
    THEN DropTrailingZeros(SubSeq(d, 1, Len(d) - 1)) ELSE d

IsDot(c) == c = "."

\* pd.to_numeric(..., errors='coerce').fillna(0), one cell of digits and dots:
\* a number needs at least one digit and at most one dot, anything else is NaN,
\* which fillna turns into 0.
ToNumericFillna(s) ==
    LET dots   == Len(SelectSeq(s, IsDot))
        digits == Len(s) - dots
    IN  IF dots > 1 \/ digits = 0
        THEN ZeroCell
        ELSE IF dots = 0
             THEN NumCell(DropLeadingZeros(s), <<>>)
             ELSE LET p == CHOOSE i \in 1..Len(s) : s[i] = "."
                  IN  NumCell(DropLeadingZeros(SubSeq(s, 1, p - 1)),
                              DropTrailingZeros(SubSeq(s, p + 1, Len(s))))

\* 1_000_000_000_000 as digits (line 94)
Ceiling == <<"1","0","0","0","0","0","0","0","0","0","0","0","0">>

\* df[col] > 1_000_000_000_000, one cell
AboveCeiling(n) ==
    \/ Len(n.int) > Len(Ceiling)
    \/ /\ Len(n.int) = Len(Ceiling)
       /\ (n.int # Ceiling \/ n.frac # <<>>)

\* faulty variant: the ceiling filter is left out
ZeroAboveCeilingSkipped(n) == n

\* df.loc[df[col] > 1_000_000_000_000, col] = 0, one cell
ZeroAboveCeiling(n) == IF AboveCeiling(n) THEN ZeroCell ELSE n

\* lines 92-94, one cell
CoerceCell(cell) == ZeroAboveCeiling(ToNumericFillna(StripNonNumeric(AsStr(cell))))

(***************************************************************************)
(* Python dicts, in insertion order: a sequence of [k, v] with unique k.   *)
(***************************************************************************)
DictHas(d, k) == \E i \in 1..Len(d) : d[i].k = k

\* d[k] = v
DictPut(d, k, v) ==
    IF DictHas(d, k)
    THEN [i \in 1..Len(d) |-> IF d[i].k = k THEN [k |-> k, v |-> v] ELSE d[i]]
    ELSE Append(d, [k |-> k, v |-> v])

\* d.get(k, default)
DictGet(d, k, default) ==
    IF DictHas(d, k) THEN d[CHOOSE i \in 1..Len(d) : d[i].k = k].v ELSE default

(***************************************************************************)
(* fetch_and_clean: the flattening (lines 66-77).                          *)
(***************************************************************************)
NameTitle     == <<"n","a","m","e">>
ItemNameTitle == <<"I","t","e","m"," ","N","a","m","e">>

\* {c['id']: c['title'] for c in board_data['columns'] if c['title'].lower() != 'name'}
RECURSIVE ColMapFrom(_, _)
ColMapFrom(columns, acc) ==
    IF columns = <<>> THEN acc
    ELSE LET c == Head(columns)
         IN  ColMapFrom(Tail(columns),
                        IF Lower(c.title) # NameTitle
                        THEN DictPut(acc, c.id, c.title) ELSE acc)
ColMap(columns) == ColMapFrom(columns, <<>>)

\* {val['id']: val['text'] for val in item['column_values']}
RECURSIVE ItemValsFrom(_, _)
ItemValsFrom(column_values, acc) ==
    IF column_values = <<>> THEN acc
    ELSE ItemValsFrom(Tail(column_values),
                      DictPut(acc, Head(column_values).id, Head(column_values).text))
ItemVals(item) == ItemValsFrom(item.column_values, <<>>)

\* lines 71-74: row_data of one item
RECURSIVE RowDataFrom(_, _, _)
RowDataFrom(col_map, item_vals, acc) ==
    IF col_map = <<>> THEN acc
    ELSE RowDataFrom(Tail(col_map), item_vals,
                     DictPut(acc, Head(col_map).v,
                             DictGet(item_vals, Head(col_map).k, StrCell(<<>>))))
RowData(col_map, item) ==
    RowDataFrom(col_map, ItemVals(item),
                <<[k |-> ItemNameTitle, v |-> item.name]>>)

\* lines 69-75
ParsedRows(board_data) ==
    LET col_map == ColMap(board_data.columns)
    IN  [i \in 1..Len(board_data.items) |-> RowData(col_map, board_data.items[i])]

\* pd.DataFrame(parsed_rows): the columns are the keys of the row dicts (every
\* row_data has the same keys); with no rows there are no columns either.
DataFrameOf(parsed_rows) ==
    IF parsed_rows = <<>> THEN EmptyDataFrame
    ELSE [columns |-> [j \in 1..Len(parsed_rows[1]) |-> parsed_rows[1][j].k],
          rows    |-> [i \in 1..Len(parsed_rows) |->
                          [j \in 1..Len(parsed_rows[i]) |-> parsed_rows[i][j].v]]]

\* line 80
StandardizeHeaders(df) ==
    [df EXCEPT !.columns = [j \in 1..Len(df.columns) |-> SanitizeHeader(df.columns[j])]]

(***************************************************************************)
(* fetch_and_clean: classification and coercion (lines 83-94).             *)
(***************************************************************************)
money_keywords ==
    << <<"v","a","l","u","e">>, <<"a","m","o","u","n","t">>,
       <<"r","e","v","e","n","u","e">>, <<"b","u","d","g","e","t">>,
       <<"c","o","s","t">>, <<"p","r","i","c","e">> >>
\* faulty variant: 'sector' is missing from the exclude list
exclude_keywords_without_sector ==
    << <<"s","t","a","t","u","s">>, <<"s","t","a","g","e">>, <<"d","a","t","e">>,
       <<"i","d">>, <<"c","o","d","e">>, <<"n","a","m","e">>,
       <<"p","r","o","b","a","b","i","l","i","t","y">> >>

exclude_keywords ==
    << <<"s","t","a","t","u","s">>, <<"s","t","a","g","e">>, <<"d","a","t","e">>,
       <<"i","d">>, <<"c","o","d","e">>, <<"n","a","m","e">>,
       <<"p","r","o","b","a","b","i","l","i","t","y">>,
       <<"s","e","c","t","o","r">> >>

\* lines 87-91: is_money_col and not is_excluded
IsCoerced(col) ==
    LET col_lower == Lower(col)
    IN  ContainsAny(col_lower, money_keywords)
        /\ ~ContainsAny(col_lower, exclude_keywords)

\* how many columns carry the label col
LabelCount(df, col) == Cardinality({j \in 1..Len(df.columns) : df.columns[j] = col})

\* df[col] is a Series only when one column carries the label; with two it is a
\* DataFrame, and .str on it raises AttributeError (line 92).
CoercionRaises(df) ==
    \E j \in 1..Len(df.columns) :
        IsCoerced(df.columns[j]) /\ LabelCount(df, df.columns[j]) > 1

\* lines 86-94 when nothing raises
CoerceColumns(df) ==
    LET coerced == [j \in 1..Len(df.columns) |-> IsCoerced(df.columns[j])]
    IN  [df EXCEPT !.rows =
            [i \in 1..Len(df.rows) |->
                [j \in 1..Len(df.columns) |->
                    IF coerced[j] THEN CoerceCell(df.rows[i][j])
                    ELSE df.rows[i][j]]]]

(***************************************************************************)
(* The upstream answer to one POST (lines 59-60): requests.post raises, or *)
(* response.json() raises, or it yields a JSON object that may carry an    *)
(* 'errors' list and/or 'data' with its boards.                            *)
(***************************************************************************)
RaisingResponse(e) ==
    [outcome |-> e, has_errors |-> FALSE, errors |-> <<>>,
     has_data |-> FALSE, boards |-> <<>>]
JsonResponse(has_errors, errors, has_data, boards) ==
    [outcome |-> "json", has_errors |-> has_errors, errors |-> errors,
     has_data |-> has_data, boards |-> boards]
Board(columns, items) == [columns |-> columns, items |-> items]
OkResponse(columns, items) == JsonResponse(FALSE, <<>>, TRUE, <<Board(columns, items)>>)

\* str(e) of the exceptions the body can raise
ExcText(e) ==
    CASE e = "ConnectionError" -> "Connection refused"
      [] e = "Timeout"         -> "Read timed out"
      [] e = "JSONDecodeError" -> "Expecting value"
      [] e = "IndexError"      -> "list index out of range"
      [] e = "KeyError:data"   -> "'data'"
      [] OTHER                 -> "'DataFrame' object has no attribute 'str'"

Returned(df, msgs) == [raised |-> FALSE, exc |-> "", df |-> df, msgs |-> msgs]
Raised(e)          == [raised |-> TRUE,  exc |-> e,  df |-> EmptyDataFrame, msgs |-> <<>>]

\* lines 66-96: a board to its table
CleanBoard(board_data) ==
    LET df == StandardizeHeaders(DataFrameOf(ParsedRows(board_data)))
    IN  IF CoercionRaises(df) THEN Raised("AttributeError")
        ELSE Returned(CoerceColumns(df), <<>>)

\* lines 59-96: the body of the try
TryBody(response) ==
    IF response.outcome # "json" THEN Raised(response.outcome)
    ELSE IF response.has_errors
         THEN IF response.errors = <<>> THEN Raised("IndexError")
              ELSE Returned(EmptyDataFrame,
                            <<"Monday API Error: " \o response.errors[1]>>)
         ELSE IF ~response.has_data THEN Raised("KeyError:data")
              ELSE IF response.boards = <<>> THEN Raised("IndexError")
                   ELSE CleanBoard(response.boards[1])

\* faulty variant: the handler lets the exception go on
ExceptHandlerReraises(e) == Raised(e)

\* lines 97-99: except Exception as e
ExceptHandler(e) == Returned(EmptyDataFrame, <<"Fetch Error: " \o ExcText(e)>>)

\* fetch_and_clean without its cache decorator (lines 36-99)
FetchAndClean(response) ==
    LET body == TryBody(response)
    IN  IF body.raised THEN ExceptHandler(body.exc) ELSE body

(***************************************************************************)
(* st.cache_data(ttl=300) around fetch_and_clean (line 35): a store keyed  *)
(* by the argument; an entry is served while it is younger than the ttl,   *)
(* and a call that raises stores nothing.                                  *)
(***************************************************************************)
Boards == {"b1", "b2"}
TTL == 300

EmptyMap == [k \in {} |-> 0]
MapPut(m, k, v) == [x \in DOMAIN m \cup {k} |-> IF x = k THEN v ELSE m[x]]

\* faulty variant: the store is not cleared
CacheClearSkipped(c) == c

\* st.cache_data.clear() (line 154)
CacheClear(c) == EmptyMap

CacheFresh(c, board_id, t) == board_id \in DOMAIN c /\ t < c[board_id].at + TTL

\* one call of the decorated fetch_and_clean: its result and the store after it
CachedFetch(c, board_id, up, t) ==
    IF CacheFresh(c, board_id, t)
    THEN [result |-> c[board_id].value, cache |-> c]
    ELSE LET r == FetchAndClean(up[board_id])
         IN  [result |-> r,
              cache  |-> IF r.raised THEN c
                         ELSE MapPut(c, board_id, [value |-> r, at |-> t])]

(***************************************************************************)
(* Python values the snippet handles, and the locals of run_bi_agent.      *)
(***************************************************************************)
PyInt(n) == [kind |-> "int",  n |-> n, s |-> ""]
PyStr(t) == [kind |-> "str",  n |-> 0, s |-> t]
PyRef(k) == [kind |-> "ref",  n |-> 0, s |-> k]
PyNone   == [kind |-> "none", n |-> 0, s |-> ""]

NoReturn == "<no return>"
NoCalls  == [plan |-> 0, exec |-> 0, narr |-> 0]

(***************************************************************************)
(* The "Sync Live Data" handler (lines 153-157), one script run.           *)
(***************************************************************************)
\* positions at which no script run is in progress
Resting == {"Idle", "Done", "Failed", "Escaped", "CallerError"}

\* the statements of the handler in order; an exception leaving a call ends the
\* run where it is, with the assignments made so far kept
SyncRun(c, s, up, t, n, deals_id, wo_id) ==
    LET c0 == CacheClear(c)
        f1 == CachedFetch(c0, deals_id, up, t)
    IN  IF f1.result.raised
        THEN [cache |-> f1.cache, session |-> s, ui |-> <<"Traceback">>]
        ELSE LET s1 == MapPut(s, "deals_df", [df |-> f1.result.df, sync |-> n])
                 f2 == CachedFetch(f1.cache, wo_id, up, t)
             IN  IF f2.result.raised
                 THEN [cache |-> f2.cache, session |-> s1,
                       ui |-> f1.result.msgs \o <<"Traceback">>]
                 ELSE [cache   |-> f2.cache,
                       session |-> MapPut(s1, "wo_df", [df |-> f2.result.df, sync |-> n]),
                       ui      |-> f1.result.msgs \o f2.result.msgs
                                   \o <<"Data Synced!">>]

Sync ==
    /\ pc \in Resting
    /\ syncs < MaxSyncs
    /\ LET run == SyncRun(cache, session, upstream, now, syncs + 1,
                          DEALS_BOARD_ID, WO_BOARD_ID)
       IN  /\ cache' = run.cache
           /\ session' = run.session
           /\ ui' = run.ui
    /\ syncs' = syncs + 1
    \* a new script run: nothing of an earlier question is left
    /\ pc' = "Idle"
    /\ clean_code' = <<>>
    /\ local_vars' = EmptyMap
    /\ raw_val' = PyNone
    /\ ret' = NoReturn
    /\ calls' = NoCalls
    /\ UNCHANGED <<DEALS_BOARD_ID, WO_BOARD_ID, upstream, now>>

(***************************************************************************)
(* run_bi_agent (lines 102-146) and its caller (lines 159-163).            *)
(***************************************************************************)
\* the prefix of line 146; its leading warning-sign emoji is written (!) here
ErrPrefix == "(!) Agent Logic Error: "
NoResult  == "No result returned"

\* what the completion endpoint can do: raise, or answer with text
LLMErrors  == {"Connection error.", "Rate limit reached"}
Narrations == {"Total deal value is 42.", "The analysis produced no result."}

\* statements a generated snippet is made of
AssignFlag   == "deals_df['Flag'] = 1"
BindResult   == "result = len(deals_df)"
MissingCol   == "result = deals_df['Missing'].sum()"
RaiseExit    == "raise SystemExit"
Statements   == {AssignFlag, BindResult, MissingCol, RaiseExit}
\* the three-backtick fence lines of a completion; a backtick is written ~ here
FenceOpen    == "~~~python"
FenceOpenCap == "~~~Python"
FenceClose   == "~~~"

SeqsUpTo(S, n) == UNION {[1..k -> S] : k \in 0..n}

\* the completions the planner can get back
RawCodes ==
    LET bodies == SeqsUpTo(Statements, MaxStmts)
    IN  bodies
        \cup {<<FenceOpen>> \o b \o <<FenceClose>> : b \in bodies}
        \cup {<<FenceOpenCap, BindResult, FenceClose>>}

IsNotFence(line) == line \notin {FenceOpen, FenceClose}

\* line 126: re.sub with MULTILINE deletes a fence-open "python" line start and
\* a fence at a line end, then strip(); the completion is given line by line
StripFences(raw_code) == SelectSeq(raw_code, IsNotFence)

\* deals_df['Flag'] = 1 : the column is added to the object itself
\* (a new label is appended; an existing one has its cells overwritten)
AssignColumn(df, label, cell) ==
    IF \E j \in 1..Len(df.columns) : df.columns[j] = label
    THEN [df EXCEPT !.rows =
            [i \in 1..Len(df.rows) |->
                [j \in 1..Len(df.columns) |->
                    IF df.columns[j] = label THEN cell ELSE df.rows[i][j]]]]
    ELSE [columns |-> Append(df.columns, label),
          rows    |-> [i \in 1..Len(df.rows) |-> Append(df.rows[i], cell)]]
FlagLabel == <<"F","l","a","g">>

\* one statement run in the namespace lv over the objects held in s
ExecStmt(stmt, s, lv) ==
    CASE stmt = AssignFlag ->
            [session |-> [s EXCEPT ![lv["deals_df"].s].df =
                              AssignColumn(@, FlagLabel, NumCell(<<"1">>, <<>>))],
             local_vars |-> lv, exc |-> ""]
      [] stmt = BindResult ->
            [session |-> s,
             local_vars |-> MapPut(lv, "result",
                                   PyInt(Len(s[lv["deals_df"].s].df.rows))),
             exc |-> ""]
      [] stmt = MissingCol ->
            [session |-> s, local_vars |-> lv, exc |-> "KeyError"]
      [] OTHER ->
            [session |-> s, local_vars |-> lv, exc |-> "SystemExit"]

RECURSIVE ExecFrom(_, _, _)
ExecFrom(code, s, lv) ==
    IF code = <<>> THEN [session |-> s, local_vars |-> lv, exc |-> ""]
    ELSE LET r == ExecStmt(Head(code), s, lv)
         IN  IF r.exc # "" THEN r ELSE ExecFrom(Tail(code), r.session, r.local_vars)

\* exec(clean_code, {}, local_vars) (line 132): the snippet is compiled whole,
\* then run statement by statement
Exec(code, s, lv) ==
    IF \E i \in 1..Len(code) : code[i] \notin Statements
    THEN [session |-> s, local_vars |-> lv, exc |-> "SyntaxError"]
    ELSE ExecFrom(code, s, lv)

\* str(e) of what the snippet raised
SnippetExcText(e) ==
    CASE e = "KeyError" -> "'Missing'"
      [] OTHER          -> "invalid syntax (<string>, line 1)"

\* except Exception (line 145) catches everything but the BaseException-only
\* classes: SystemExit, KeyboardInterrupt, GeneratorExit
CaughtByExceptException(e) == e \notin {"SystemExit", "KeyboardInterrupt", "GeneratorExit"}

\* line 131
InitialLocals ==
    [k \in {"deals_df", "wo_df", "pd"} |->
        IF k = "pd" THEN PyRef("pandas") ELSE PyRef(k)]

\* faulty variant: get() without its default
ExtractResultNoDefault(lv) ==
    IF "result" \in DOMAIN lv THEN lv["result"] ELSE PyNone

\* local_vars.get("result", "No result returned") (line 133)
ExtractResult(lv) ==
    IF "result" \in DOMAIN lv THEN lv["result"] ELSE PyStr(NoResult)

\* line 146, and the caller's st.success of it (line 163)
Fail(msg) ==
    /\ pc' = "Failed"
    /\ ret' = ErrPrefix \o msg
    /\ ui' = <<ErrPrefix \o msg>>

\* lines 159-163 and 103-118: the question is submitted and run_bi_agent entered
AskStart ==
    /\ pc \in Resting
    /\ "deals_df" \in DOMAIN session
    /\ IF "wo_df" \in DOMAIN session
       THEN pc' = "Planning" /\ ui' = <<>>
       ELSE pc' = "CallerError" /\ ui' = <<"Traceback">>   \* KeyError at line 163
    /\ clean_code' = <<>>
    /\ local_vars' = EmptyMap
    /\ raw_val' = PyNone
    /\ ret' = NoReturn
    /\ calls' = NoCalls
    /\ UNCHANGED <<DEALS_BOARD_ID, WO_BOARD_ID, upstream, now, cache, session, syncs>>

\* lines 120-129: the code-generation call and the fence stripping
Plan ==
    /\ pc = "Planning"
    /\ calls' = [calls EXCEPT !.plan = @ + 1]
    /\ \/ \E e \in LLMErrors :
            /\ Fail(e)
            /\ UNCHANGED clean_code
       \/ \E raw_code \in RawCodes :
            /\ clean_code' = StripFences(raw_code)
            /\ pc' = "Executing"
            /\ UNCHANGED <<ret, ui>>
    /\ UNCHANGED <<DEALS_BOARD_ID, WO_BOARD_ID, upstream, now, cache, session,
                   syncs, local_vars, raw_val>>

\* lines 131-133: the snippet runs on the session's own table objects
Execute ==
    /\ pc = "Executing"
    /\ calls' = [calls EXCEPT !.exec = @ + 1]
    /\ LET run == Exec(clean_code, session, InitialLocals)
       IN  /\ session' = run.session
           /\ local_vars' = run.local_vars
           /\ IF run.exc = ""
              THEN /\ raw_val' = ExtractResult(run.local_vars)
                   /\ pc' = "Narrating"
                   /\ UNCHANGED <<ret, ui>>
              ELSE IF CaughtByExceptException(run.exc)
                   THEN Fail(SnippetExcText(run.exc)) /\ UNCHANGED raw_val
                   ELSE /\ pc' = "Escaped"      \* propagates out of run_bi_agent
                        /\ ui' = <<"Traceback">>
                        /\ UNCHANGED <<ret, raw_val>>
    /\ clean_code' = <<>>
    /\ UNCHANGED <<DEALS_BOARD_ID, WO_BOARD_ID, upstream, now, cache, syncs>>

\* lines 135-144: the narration call; its text is what run_bi_agent returns
Narrate ==
    /\ pc = "Narrating"
    /\ calls' = [calls EXCEPT !.narr = @ + 1]
    /\ \/ \E e \in LLMErrors : Fail(e)
       \/ \E content \in Narrations :
            /\ pc' = "Done"
            /\ ret' = content
            /\ ui' = <<content>>
    /\ UNCHANGED <<DEALS_BOARD_ID, WO_BOARD_ID, upstream, now, cache, session,
                   syncs, clean_code, local_vars, raw_val>>

(***************************************************************************)
(* The environment: monday.com data changes, time passes.                  *)
(***************************************************************************)
TickStep == 200

Tick ==
    /\ now < MaxTicks * TickStep
    /\ now' = now + TickStep
    /\ UNCHANGED <<DEALS_BOARD_ID, WO_BOARD_ID, upstream, cache, session, syncs,
                   ui, pc, clean_code, local_vars, raw_val, ret, calls>>

(***************************************************************************)
(* Inputs: column titles and cell texts monday.com can send.               *)
(***************************************************************************)
T_DealValue == <<"D","e","a","l"," ","V","a","l","u","e">>
T_Amount == <<"A","m","o","u","n","t">>
T_Revenue == <<"R","e","v","e","n","u","e">>
T_Budget == <<"B","u","d","g","e","t">>
T_Cost == <<"C","o","s","t">>
T_Price == <<"P","r","i","c","e">>
T_VALUE == <<"V","A","L","U","E">>
T_DealValueUsd == <<"D","e","a","l"," ","V","a","l","u","e"," ","(","$",")">>
T_ValueStatus == <<"V","a","l","u","e"," ","S","t","a","t","u","s">>
T_StageAmount == <<"S","t","a","g","e"," ","A","m","o","u","n","t">>
T_RevenueDate == <<"R","e","v","e","n","u","e"," ","D","a","t","e">>
T_PaidAmount == <<"P","a","i","d"," ","A","m","o","u","n","t">>
T_CostCode == <<"C","o","s","t"," ","C","o","d","e">>
T_BudgetName == <<"B","u","d","g","e","t"," ","N","a","m","e">>
T_PriceProbability == <<"P","r","i","c","e"," ","P","r","o","b","a","b","i","l","i","t","y">>
T_SectorRevenue == <<"S","e","c","t","o","r"," ","R","e","v","e","n","u","e">>
T_Probability == <<"P","r","o","b","a","b","i","l","i","t","y">>
T_Owner == <<"O","w","n","e","r">>
T_Name == <<"N","a","m","e">>
T_ItemName == <<"I","t","e","m"," ","N","a","m","e">>
T_StatusBang == <<"S","t","a","t","u","s","!">>
T_StatusQuery == <<"S","t","a","t","u","s","?">>
T_ValueUsd == <<"V","a","l","u","e"," ","(","$",")">>
T_ValuePct == <<"V","a","l","u","e"," ","(","%",")">>
X_Empty == <<>>
X_Money == <<"$","1",",","2","0","0",".","5","0">>
X_Phone == <<"5","5","5","1","2","3","4","5","6","7","8","9","0">>
X_AtCeiling == <<"1","0","0","0","0","0","0","0","0","0","0","0","0">>
X_OverCeiling == <<"1","0","0","0","0","0","0","0","0","0","0","0","0",".","5">>
X_TwoDots == <<"1",".","2",".","3">>
X_NA == <<"n","/","a">>
X_Negative == <<"-","7","5">>
X_Dot == <<".">>
X_LeadingZeros == <<"0","0","4","2">>
X_Half == <<".","5">>
X_Five == <<"$","5">>

Titles == {T_DealValue, T_Amount, T_Revenue, T_Budget, T_Cost, T_Price, T_VALUE, T_DealValueUsd, T_ValueStatus, T_StageAmount, T_RevenueDate, T_PaidAmount, T_CostCode, T_BudgetName, T_PriceProbability, T_SectorRevenue, T_Probability, T_Owner}
CellTexts == {StrCell(x) : x \in {X_Empty, X_Money, X_Phone, X_AtCeiling, X_OverCeiling, X_TwoDots, X_NA, X_Negative, X_Dot, X_LeadingZeros, X_Half, X_Five}} \cup {NoneCell}

Descriptor(id, title) == [id |-> id, title |-> title]
ColumnValue(id, text) == [id |-> id, text |-> text]
Item(name, column_values) == [name |-> StrCell(name), column_values |-> column_values]

\* boards that exercise the shape of the table: name columns, equal titles,
\* titles equal after sanitization, repeated ids, items that leave columns out
ShapeDescriptors ==
    {Descriptor("c1", T_Name), Descriptor("c1", T_ItemName),
     Descriptor("c1", T_StatusBang), Descriptor("c2", T_StatusQuery),
     Descriptor("c2", T_StatusBang),
     Descriptor("c1", T_ValueUsd), Descriptor("c2", T_ValuePct)}
ShapeItems ==
    {Item(<<"A">>, <<>>),
     Item(<<"A">>, <<ColumnValue("c1", StrCell(X_Five))>>),
     Item(<<"A">>, <<ColumnValue("c1", StrCell(X_Five)), ColumnValue("c2", StrCell(X_NA))>>)}
ShapeResponse(columns, items) == OkResponse(columns, items)

\* boards that exercise classification and coercion: one column, one item
CoerceResponse(t, x) ==
    OkResponse(<<Descriptor("c1", t)>>, <<Item(<<"A">>, <<ColumnValue("c1", x)>>)>>)

\* answers that are not a board
FailureResponses ==
    {RaisingResponse("ConnectionError"), RaisingResponse("Timeout"),
     RaisingResponse("JSONDecodeError"),
     JsonResponse(TRUE, <<"Not Authenticated">>, FALSE, <<>>),
     JsonResponse(TRUE, <<"Complexity budget exhausted">>, TRUE, <<Board(<<>>, <<>>)>>),
     JsonResponse(TRUE, <<>>, FALSE, <<>>),
     JsonResponse(FALSE, <<>>, FALSE, <<>>),
     JsonResponse(FALSE, <<>>, TRUE, <<>>)}

\* the answers the session-level behaviours draw from
DealsV1 == OkResponse(<<Descriptor("c1", T_DealValueUsd)>>,
                      <<Item(<<"A">>, <<ColumnValue("c1", StrCell(X_Money))>>)>>)
DealsV2 == OkResponse(<<Descriptor("c1", T_DealValueUsd)>>,
                      <<Item(<<"A">>, <<ColumnValue("c1", StrCell(X_Money))>>),
                        Item(<<"B">>, <<ColumnValue("c1", StrCell(X_Five))>>)>>)
SessionResponses ==
    {DealsV1, DealsV2, RaisingResponse("Timeout"),
     JsonResponse(TRUE, <<"Not Authenticated">>, FALSE, <<>>)}

\* monday.com data changes
UpstreamChange ==
    /\ \E b \in Boards, r \in SessionResponses :
          /\ r # upstream[b]
          /\ upstream' = [upstream EXCEPT ![b] = r]
    /\ UNCHANGED <<DEALS_BOARD_ID, WO_BOARD_ID, now, cache, session, syncs,
                   ui, pc, clean_code, local_vars, raw_val, ret, calls>>

(***************************************************************************)
(* Specifications.                                                         *)
(***************************************************************************)
InitRest ==
    /\ DEALS_BOARD_ID = "b1"
    /\ now = 0
    /\ cache = EmptyMap
    /\ session = EmptyMap
    /\ syncs = 0
    /\ ui = <<>>
    /\ pc = "Idle"
    /\ clean_code = <<>>
    /\ local_vars = EmptyMap
    /\ raw_val = PyNone
    /\ ret = NoReturn
    /\ calls = NoCalls

\* the app after start-up, with monday.com holding any of the session answers;
\* syncs and questions against a changing monday.com (no step of a question
\* reads the clock, which stands still here and runs in SyncSpec)
Init ==
    /\ upstream \in [Boards -> SessionResponses]
    /\ WO_BOARD_ID = "b2"
    /\ InitRest

Next == Sync \/ AskStart \/ Plan \/ Execute \/ Narrate \/ UpstreamChange

Spec == Init /\ [][Next]_vars

\* syncs alone, against a changing monday.com and a running clock, with the
\* two board ids different or the same
InitSync ==
    /\ upstream \in [Boards -> SessionResponses]
    /\ WO_BOARD_ID \in Boards
    /\ InitRest

NextSync == Sync \/ Tick \/ UpstreamChange

SyncSpec == InitSync /\ [][NextSync]_vars

\* the pipeline on every answer drawn: both boards hold it
InitPipeline ==
    /\ \E r \in FailureResponses \cup SessionResponses
                \cup {CoerceResponse(t, x) : t \in Titles, x \in CellTexts}
                \cup {ShapeResponse(columns, items) :
                         columns \in SeqsUpTo(ShapeDescriptors, MaxCols),
                         items \in SeqsUpTo(ShapeItems, MaxItems)} :
          upstream = [b \in Boards |-> r]
    /\ WO_BOARD_ID = "b2"
    /\ InitRest

NextPipeline == Sync

PipelineSpec == InitPipeline /\ [][NextPipeline]_vars

(***************************************************************************)
(* Properties.                                                             *)
(***************************************************************************)
\* every message run_bi_agent can build at line 146
AgentErrors ==
    {ErrPrefix \o m : m \in LLMErrors \cup {SnippetExcText("KeyError"),
                                            SnippetExcText("SyntaxError")}}

\* C1: every question ends in Done with the narration sentence, or in Failed
\* with a message prefixed by the Agent Logic Error prefix; each stage runs at
\* most once, and no exception leaves run_bi_agent.
C1_EndsDoneOrFailed ==
    /\ pc # "Escaped"
    /\ calls.plan <= 1 /\ calls.exec <= 1 /\ calls.narr <= 1
    /\ pc = "Done" => ret \in Narrations /\ calls = [plan |-> 1, exec |-> 1, narr |-> 1]
    /\ pc = "Failed" => ret \in AgentErrors
    /\ pc \in {"Done", "Failed"} <=> ret # NoReturn

\* C2: whenever the guard of the ask action holds ('deals_df' is in the session
\* state) the work-orders table is there too, both tables come from the same
\* sync, and the caller never fails to hand both to run_bi_agent.
C2_NoPartialSessionState ==
    /\ pc # "CallerError"
    /\ "deals_df" \in DOMAIN session =>
          /\ "wo_df" \in DOMAIN session
          /\ session["deals_df"].sync = session["wo_df"].sync
          /\ session["deals_df"].sync = syncs

\* a question is being answered on the tables of the second sync
C2_Witness ==
    /\ pc = "Planning"
    /\ syncs = 2
    /\ session["wo_df"].sync = 2

\* C3: the tables a sync publishes are what the pipeline makes of the upstream
\* data as of that sync, whatever the cache held before it.
C3_SyncPublishesLiveData ==
    [][syncs' # syncs =>
          /\ session'["deals_df"].df = FetchAndClean(upstream[DEALS_BOARD_ID]).df
          /\ session'["wo_df"].df = FetchAndClean(upstream[WO_BOARD_ID]).df]_vars

\* a second sync ran inside the freshness window of the first, after time had
\* passed, with both fetches going to the same board (the second fetch is a
\* cache hit) and the upstream data not what the first sync can have cached
C3_Witness ==
    /\ syncs = 2
    /\ 0 < now /\ now < TTL
    /\ WO_BOARD_ID = DEALS_BOARD_ID
    /\ DEALS_BOARD_ID \in DOMAIN cache
    /\ cache[DEALS_BOARD_ID].at = now
    /\ session["wo_df"].df = FetchAndClean(DealsV2).df

\* C4: between syncs the tables in the session state do not change, whatever
\* snippet a question runs and however the question ends.
C4_TablesImmutableBetweenSyncs ==
    [][syncs' = syncs => session' = session]_vars

\* an upstream answer that is no board: transport failure, timeout, a body
\* that is not JSON, an errors list, or JSON without the board
C5_IsFailure(r) ==
    r.outcome # "json" \/ r.has_errors \/ ~r.has_data \/ r.boards = <<>>

C5_ErrorReports ==
    {"Monday API Error: " \o m : m \in {"Not Authenticated", "Complexity budget exhausted"}}
    \cup {"Fetch Error: " \o t : t \in {"Connection refused", "Read timed out",
                                        "Expecting value", "list index out of range",
                                        "'data'"}}

\* C5: a sync over a failing upstream runs to its end: both tables are in the
\* session state, the table of a failed fetch is the empty table, an error
\* message was shown, and the ask action is enabled.
C5_FetchNeverRaises ==
    syncs > 0 =>
        /\ ui # <<>> /\ ui[Len(ui)] = "Data Synced!"
        /\ "deals_df" \in DOMAIN session /\ "wo_df" \in DOMAIN session
        /\ ENABLED AskStart
        /\ C5_IsFailure(upstream[DEALS_BOARD_ID]) =>
              /\ session["deals_df"].df = EmptyDataFrame
              /\ session["wo_df"].df = EmptyDataFrame
              /\ Len(ui) = 3
              /\ ui[1] \in C5_ErrorReports /\ ui[2] \in C5_ErrorReports

C5_Witness ==
    /\ syncs > 0
    /\ upstream[DEALS_BOARD_ID] = RaisingResponse("Timeout")
    /\ session["deals_df"].df = EmptyDataFrame

\* the board of a successful answer
C6_IsBoard(r) == r.outcome = "json" /\ ~r.has_errors /\ r.has_data /\ r.boards # <<>>
C6_NonNameCount(columns) ==
    Cardinality({j \in 1..Len(columns) : Lower(columns[j].title) # NameTitle})

\* C6: for a successful answer the table has one row per item and one column
\* per non-name descriptor plus one.
C6_RowAndColumnCount ==
    (syncs > 0 /\ C6_IsBoard(upstream[DEALS_BOARD_ID])) =>
        LET board == upstream[DEALS_BOARD_ID].boards[1]
            df    == session["deals_df"].df
        IN  /\ Len(df.rows) = Len(board.items)
            /\ Len(df.columns) = C6_NonNameCount(board.columns) + 1

\* C7: no two columns of a published table carry the same title.
C7_TitlesUnique ==
    \A key \in DOMAIN session :
        LET columns == session[key].df.columns
        IN  \A i, j \in 1..Len(columns) : i # j => columns[i] # columns[j]

\* 0 <= n <= 10^12, on the digits of n
C8_InRange(n) ==
    \/ Len(n.int) < 13
    \/ n.int = <<"1","0","0","0","0","0","0","0","0","0","0","0","0">> /\ n.frac = <<>>

\* what the cell of a numeric column must hold for each cell text drawn
C8_Expected(x) ==
    CASE x = StrCell(X_Money)        -> NumCell(<<"1","2","0","0">>, <<"5">>)
      [] x = StrCell(X_AtCeiling)    -> NumCell(Ceiling, <<>>)
      [] x = StrCell(X_Negative)     -> NumCell(<<"7","5">>, <<>>)
      [] x = StrCell(X_LeadingZeros) -> NumCell(<<"4","2">>, <<>>)
      [] x = StrCell(X_Half)         -> NumCell(<<>>, <<"5">>)
      [] x = StrCell(X_Five)         -> NumCell(<<"5">>, <<>>)
      [] OTHER                       -> ZeroCell

\* C8: every cell of a numeric column of a published table is a number from 0
\* to 10^12; text without a number and values above the ceiling are stored as 0.
C8_NumericCellsInRange ==
    /\ \A key \in DOMAIN session :
          LET df == session[key].df
          IN  \A j \in 1..Len(df.columns) :
                 IsCoerced(df.columns[j]) =>
                    \A i \in 1..Len(df.rows) :
                       df.rows[i][j].kind = "num" /\ C8_InRange(df.rows[i][j])
    /\ \A x \in CellTexts :
          (syncs > 0 /\ upstream[DEALS_BOARD_ID] = CoerceResponse(T_DealValue, x))
             => session["deals_df"].df.rows[1][2] = C8_Expected(x)

\* a 13-digit phone number in a money column was stored as 0
C8_Witness ==
    /\ syncs > 0
    /\ upstream[DEALS_BOARD_ID] = CoerceResponse(T_DealValue, StrCell(X_Phone))
    /\ session["deals_df"].df.rows[1][2] = ZeroCell

C9_Money ==
    { <<"v","a","l","u","e">>, <<"a","m","o","u","n","t">>,
      <<"r","e","v","e","n","u","e">>, <<"b","u","d","g","e","t">>,
      <<"c","o","s","t">>, <<"p","r","i","c","e">> }
C9_Exclude ==
    { <<"s","t","a","t","u","s">>, <<"s","t","a","g","e">>, <<"d","a","t","e">>,
      <<"i","d">>, <<"c","o","d","e">>, <<"n","a","m","e">>,
      <<"p","r","o","b","a","b","i","l","i","t","y">>, <<"s","e","c","t","o","r">> }
C9_Numeric(title) ==
    /\ \E k \in C9_Money : Contains(Lower(title), k)
    /\ \A k \in C9_Exclude : ~Contains(Lower(title), k)

\* C9: a column of a published table holds numbers if and only if its
\* lower-cased title contains a money keyword and no exclude keyword.
C9_NumericIffKeywords ==
    \A key \in DOMAIN session :
        LET df == session[key].df
        IN  \A j \in 1..Len(df.columns), i \in 1..Len(df.rows) :
               df.rows[i][j].kind = "num" <=> C9_Numeric(df.columns[j])

\* a title with a money keyword and an exclude keyword kept its text
C9_Witness ==
    /\ syncs > 0
    /\ upstream[DEALS_BOARD_ID] = CoerceResponse(T_SectorRevenue, StrCell(X_Five))
    /\ session["deals_df"].df.rows[1][2] = StrCell(X_Five)

\* the snippet ran to its end without raising
ExecutedWithoutRaising ==
    calls.exec = 1 /\ (pc \in {"Narrating", "Done"} \/ calls.narr = 1)

\* C10 as stated: a snippet that ran without raising and bound no result makes
\* the engine return the sentinel "No result returned".
C10_ReturnsSentinel ==
    (ExecutedWithoutRaising /\ "result" \notin DOMAIN local_vars
        /\ pc \in {"Done", "Failed"}) => ret = NoResult

\* C10 amended: a snippet that ran without raising and bound no result hands
\* the sentinel "No result returned" to the narrator; the engine returns the
\* narrator's sentence, or an Agent Logic Error only with the message of a
\* failed narration call.
C10_SentinelIsNarrated ==
    (ExecutedWithoutRaising /\ "result" \notin DOMAIN local_vars) =>
        /\ raw_val = PyStr(NoResult)
        /\ pc = "Done" => ret \in Narrations
        /\ pc = "Failed" => ret \in {ErrPrefix \o e : e \in LLMErrors}

C10_Witness ==
    /\ pc = "Done"
    /\ calls.exec = 1
    /\ "result" \notin DOMAIN local_vars
    /\ raw_val = PyStr(NoResult)

====
